---- MODULE Spec2Model ----
(***************************************************************************)
(* State-machine model of log-generator.py: the command line entry point,  *)
(* send_log and its closures (ensure_tcp_connected, send_one,              *)
(* send_file_once), StreamingLineSource in replay-once mode, and           *)
(* expand_inputs.                                                          *)
(*                                                                         *)
(* A path is represented by its rank in lexicographic order (a natural     *)
(* number), a duration by a whole number of quarter seconds, a socket by   *)
(* the index of its entry in `socks`; None is 0.                           *)
(***************************************************************************)
EXTENDS Integers, Sequences, FiniteSets, TLC

\* ------------------------------------------------------------------ bounds
MaxCount == 2
MaxEps == 2
MaxFiles == 2
MaxLines == 2
MaxRetries == 4
MaxBackoffStart == 4
MaxBackoffCap == 3
\* writes that may fail in one run
MaxWriteFailures == 2
\* characters of a line given to build_wire
MaxLineLen == 3
MaxSrcLines == 3
MaxCalls == 7
MaxPerFile == 3
MaxSplitLines == 5
MaxPacedLines == 3
MaxLatency == 3
MaxOvershoot == 1

\* ------------------------------------------------------- program constants
\* send_log's defaults, the values every command line run uses
DefaultTcpRetries == 10
DefaultBackoffStart == 1
DefaultBackoffMax == 12

None == 0
NotAFile == 0 - 1

VARIABLES
    \* the command line / the arguments of send_log (never change)
    argvValid, count, eps, protocol, fmt, mode, stop_at_eof,
    tcp_retries, tcp_backoff_start, tcp_backoff_max,
    \* the file system: what the directory lists, and each entry's line count
    listing, nlines,
    \* control
    pc, outcome, exitStatus,
    \* send_log's locals
    files, replay, idx_fp, sock,
    \* every socket the run created: "open" or "closed"
    socks,
    \* ensure_tcp_connected's frame
    conn,
    \* send_file_once's frame
    src, sent, burst_sent,
    \* send_one's frame for the line in hand
    so,
    \* observation: the frames passed to send_one, the frames the transport
    \* accepted, what send_file_once returned, lines read, sent += 1 steps,
    \* error messages printed, failed writes, whether a connect failed
    handed, transmitted, returns, linesRead, sentTotal, printed, writeFailures,
    connectFailed,
    \* some socket whose connect() raised is still open: connect_tcp leaves it
    \* to the garbage collector
    orphanOpen,
    \* --burst-delay, the burst_delay sleeps of the file pass in hand, and
    \* the reports printed after the replay loop
    burst_delay, delays, summary,
    \* the components checked on their own: one call of build_wire, one call
    \* of pick_tag_for_file, a StreamingLineSource, split_log's locals, and
    \* the clock of one paced file pass
    wireCall, tagCall, lineSource, splitter, pacer

argVars == <<argvValid, count, eps, protocol, fmt, mode, stop_at_eof,
             tcp_retries, tcp_backoff_start, tcp_backoff_max, listing, nlines>>
runVars == <<pc, outcome, exitStatus, files, replay, idx_fp, sock, socks, conn,
             src, sent, burst_sent, so, handed, transmitted, returns, linesRead, sentTotal, printed,
             writeFailures, connectFailed, orphanOpen>>
runVarsButOrphan == <<pc, outcome, exitStatus, files, replay, idx_fp, sock, socks,
                      conn, src, sent, burst_sent, so, handed, transmitted, returns,
                      linesRead, sentTotal, printed, writeFailures, connectFailed>>
unitVars == <<wireCall, tagCall, lineSource, splitter, pacer>>
auxVars == <<burst_delay, delays, summary>>
vars == <<argVars, runVars, unitVars, auxVars>>

Names == 1..MaxFiles

is_tcp == protocol = 1
is_udp == protocol = 0

\* ------------------------------------------------------------- helpers
Min(a, b) == IF a <= b THEN a ELSE b

RECURSIVE Insert(_, _)
Insert(x, s) ==
    IF s = <<>> THEN <<x>>
    ELSE IF x <= Head(s) THEN <<x>> \o s
    ELSE <<Head(s)>> \o Insert(x, Tail(s))

unsorted(s) == s

\* list.sort()
RECURSIVE sort(_)
sort(s) == IF s = <<>> THEN <<>> ELSE Insert(Head(s), sort(Tail(s)))

\* os.path.isfile
isfile(p) == nlines[p] # NotAFile

\* expand_inputs: the regular files among the entries, sorted
expand_inputs(entries) == sort(SelectSeq(entries, isfile))

safe_close_forgotten(s, all) == all

\* safe_close(sock): closes the socket if there is one
safe_close(s, all) == IF s = None THEN all ELSE [all EXCEPT ![s] = "closed"]

NoCall == [caller |-> "none", attempt |-> 0, backoff |-> 0, sleeps |-> <<>>, ret |-> "none"]
NoSend == [wire |-> <<>>, writes |-> 0, ensures |-> 0, w1 |-> "none", rc |-> "none", w2 |-> "none", ret |-> "none"]
NoSrc == [open |-> FALSE, pos |-> 0]

fp == files[idx_fp]

Running == 0 - 1

\* ------------------------------------------------------------------- Init
Formats == {"rfc3164", "raw", "cef"}
Modes == {"paced", "burst", "flood"}

\* what os.listdir / glob may return: distinct entries in any order
Listings ==
    {l \in UNION {[1..n -> Names] : n \in 0..MaxFiles} :
        \A i, j \in DOMAIN l : i # j => l[i] # l[j]}

InListing(l, p) == \E i \in DOMAIN l : l[i] = p

\* the file system: the entries of l are regular files of 0..MaxLines lines
\* each, or (when others is TRUE) something else than a regular file
FileSystems(l, others) ==
    {f \in [Names -> NotAFile..MaxLines] :
        \A p \in Names :
            /\ ~InListing(l, p) => f[p] = NotAFile
            /\ InListing(l, p) /\ ~others => f[p] # NotAFile}

\* the first n names, in order
Ordered(n) == [i \in 1..n |-> i]

\* The inputs are drawn from four families, each varying one group of
\* arguments of the program.
\* 1. the command line: every combination of valid and invalid arguments,
\*    over no file or a single one-line file
CliArgs ==
    /\ argvValid \in BOOLEAN
    /\ count \in 0..MaxCount
    /\ eps \in 0..MaxEps
    /\ protocol \in 0..2
    /\ fmt \in Formats
    /\ mode \in Modes
    /\ stop_at_eof \in BOOLEAN
    /\ tcp_retries = DefaultTcpRetries
    /\ tcp_backoff_start = DefaultBackoffStart
    /\ tcp_backoff_max = DefaultBackoffMax
    /\ listing \in {<<>>, <<1>>}
    /\ nlines = [p \in Names |-> IF InListing(listing, p) THEN 1 ELSE NotAFile]
    /\ burst_delay = 0

\* --burst-delay: absent (0.0) or half a second; read in burst mode only
BurstDelays == {0, 2}

\* 2. the run: valid arguments, both transports and modes, every rate, with
\*    and without a burst delay, over files of 0..MaxLines lines each:
\*    several replays of one file, or one replay of 1..MaxFiles files
RunArgs ==
    /\ argvValid = TRUE
    /\ count \in 1..MaxCount
    /\ eps \in 1..MaxEps
    /\ protocol \in 0..1
    /\ fmt = "rfc3164"
    /\ mode \in {"paced", "burst"}
    /\ stop_at_eof = TRUE
    /\ tcp_retries = DefaultTcpRetries
    /\ tcp_backoff_start = DefaultBackoffStart
    /\ tcp_backoff_max = DefaultBackoffMax
    /\ listing \in {Ordered(n) : n \in 1..MaxFiles}
    /\ count = 1 \/ Len(listing) = 1
    /\ nlines \in FileSystems(listing, FALSE)
    /\ burst_delay \in (IF mode = "burst" THEN BurstDelays ELSE {0})

\* 3. the resolver: every listing, in every order, of regular files of at
\*    most one line and of other entries, replayed 1..MaxCount times
ResolverArgs ==
    /\ argvValid = TRUE
    /\ count \in 1..MaxCount
    /\ eps = 1
    /\ protocol \in 0..1
    /\ fmt = "raw"
    /\ mode \in {"paced", "burst"}
    /\ stop_at_eof = TRUE
    /\ tcp_retries = DefaultTcpRetries
    /\ tcp_backoff_start = DefaultBackoffStart
    /\ tcp_backoff_max = DefaultBackoffMax
    /\ listing \in Listings
    /\ nlines \in {f \in FileSystems(listing, TRUE) : \A p \in Names : f[p] <= 1}
    /\ burst_delay = 0

\* 4. the connection: send_log called with its own retry count and backoff
ApiArgs ==
    /\ argvValid = TRUE
    /\ count = 1
    /\ eps = 1
    /\ protocol = 1
    /\ fmt = "rfc3164"
    /\ mode = "paced"
    /\ stop_at_eof = TRUE
    /\ tcp_retries \in 0..MaxRetries
    /\ tcp_backoff_start \in 1..MaxBackoffStart
    /\ tcp_backoff_max \in 1..MaxBackoffCap
    /\ listing = <<1>>
    /\ nlines \in FileSystems(listing, FALSE)
    /\ burst_delay = 0

\* a component that is not in use
NoUnit == [op |-> "none"]

UnitsIdle ==
    /\ wireCall = NoUnit
    /\ tagCall = NoUnit
    /\ lineSource = NoUnit
    /\ splitter = NoUnit
    /\ pacer = NoUnit

\* the state of the process before __main__ runs
Loaded ==
    /\ pc = "main"
    /\ outcome = "running"
    /\ exitStatus = Running
    /\ files = <<>>
    /\ replay = 0
    /\ idx_fp = 0
    /\ sock = None
    /\ socks = <<>>
    /\ conn = NoCall
    /\ src = NoSrc
    /\ sent = 0
    /\ burst_sent = 0
    /\ so = NoSend
    /\ handed = <<>>
    /\ transmitted = <<>>
    /\ returns = <<>>
    /\ linesRead = 0
    /\ printed = <<>>
    /\ writeFailures = 0
    /\ sentTotal = 0
    /\ connectFailed = FALSE
    /\ orphanOpen = FALSE
    /\ delays = 0
    /\ summary = <<>>

Init ==
    /\ CliArgs \/ RunArgs \/ ResolverArgs \/ ApiArgs
    /\ Loaded
    /\ UnitsIdle

\* ------------------------------------------------------ leaving the process
\* control leaves without passing send_log's finally (no socket exists yet)
Exit(how, status, msgs) ==
    /\ pc' = "done"
    /\ outcome' = how
    /\ exitStatus' = status
    /\ printed' = printed \o msgs

FinallyWithoutClose(how, status, msgs) ==
    /\ Exit(how, status, msgs)
    /\ socks' = socks

\* finally: safe_close(sock), then the process ends
Finally(how, status, msgs) ==
    /\ Exit(how, status, msgs)
    /\ socks' = safe_close(sock, socks)

\* RuntimeError / any exception inside send_file_once: src.close(), then
\* send_log's finally, then the interpreter's exit status 1
Raise(how, msgs) ==
    /\ Finally(how, 1, msgs)
    /\ src' = NoSrc

\* -------------------------------------------------------------- __main__
ParseOptionalArgs ==
    /\ pc = "main"
    /\ IF argvValid
       THEN /\ pc' = "send_log"
            /\ UNCHANGED <<outcome, exitStatus, printed>>
       ELSE Exit("usage_error", 1, <<"Unknown/invalid option">>)
    /\ UNCHANGED <<argVars, unitVars, auxVars, handed, writeFailures, connectFailed, orphanOpen, sentTotal, files, replay, idx_fp, sock, socks, conn, src, sent,
                   burst_sent, so, transmitted, returns, linesRead>>

\* the message of the first failing check of send_log's preamble, or "" 
ConfigError(fs) ==
    IF eps <= 0 THEN "eps must be > 0"
    ELSE IF count <= 0 THEN "count must be > 0"
    ELSE IF fmt \notin {"rfc3164", "raw"} THEN "--format must be 'rfc3164' or 'raw'"
    ELSE IF mode \notin {"paced", "burst"} THEN "--mode must be 'paced' or 'burst'"
    ELSE IF ~(is_tcp \/ is_udp) THEN "Invalid protocol"
    ELSE IF fs = <<>> THEN "No files found"
    ELSE ""

\* the status the process ends with when send_log returns after an error
\* message: send_log returns None and the script ends
ReturnStatus == 0

Validate ==
    /\ pc = "send_log"
    /\ LET fs == expand_inputs(listing)
           err == ConfigError(fs)
       IN IF err = ""
          THEN /\ files' = fs
               /\ pc' = "try"
               /\ UNCHANGED <<outcome, exitStatus, printed>>
          ELSE /\ Exit("config_error", ReturnStatus, <<err>>)
               /\ UNCHANGED files
    /\ UNCHANGED <<argVars, unitVars, auxVars, handed, writeFailures, connectFailed, orphanOpen, sentTotal, replay, idx_fp, sock, socks, conn, src, sent,
                   burst_sent, so, transmitted, returns, linesRead>>

NeverRefuses == FALSE

\* "Please use --stop-at-eof": send_log refuses to run without the flag
RefusesRun == ~stop_at_eof

EnterTry ==
    /\ pc = "try"
    /\ LET s == IF is_udp THEN Len(socks) + 1 ELSE None
           opened == IF is_udp THEN Append(socks, "open") ELSE socks
       IN /\ sock' = s
          /\ IF RefusesRun
             THEN /\ Exit("refused", ReturnStatus, <<"Please use --stop-at-eof">>)
                  /\ socks' = safe_close(s, opened)
                  /\ UNCHANGED replay
             ELSE /\ socks' = opened
                  /\ replay' = 1
                  /\ pc' = "replay"
                  /\ UNCHANGED <<outcome, exitStatus, printed>>
    /\ UNCHANGED <<argVars, unitVars, auxVars, handed, writeFailures, connectFailed, orphanOpen, sentTotal, files, idx_fp, conn, src, sent, burst_sent, so,
                   transmitted, returns, linesRead>>

\* ------------------------------------------------- ensure_tcp_connected
\* the loop's state on entry: backoff = tcp_backoff_start, no attempt made
NewCall(caller) ==
    [caller |-> caller, attempt |-> 0, backoff |-> tcp_backoff_start,
     sleeps |-> <<>>, ret |-> "none"]

NextBackoffUncapped(b) == b * 2

\* backoff = min(tcp_backoff_max, backoff * 2)
NextBackoff(b) == Min(tcp_backoff_max, b * 2)

NeedsConnectAlways == is_tcp

\* ensure_tcp_connected returns True at once on the datagram transport and
\* when a socket is held; otherwise it enters the retry loop
NeedsConnect == is_tcp /\ sock = None

\* for replay in range(1, count + 1): if is_tcp and not ensure_tcp_connected()
ReplayStart ==
    /\ pc = "replay"
    /\ replay <= count
    /\ IF NeedsConnect
       THEN /\ pc' = "connect"
            /\ conn' = NewCall("replay")
            /\ UNCHANGED idx_fp
       ELSE /\ pc' = "file"
            /\ idx_fp' = 1
            /\ conn' = IF is_tcp THEN [NoCall EXCEPT !.caller = "replay", !.ret = "True"]
                       ELSE conn
    /\ UNCHANGED <<argVars, unitVars, auxVars, handed, writeFailures, connectFailed, orphanOpen, sentTotal, outcome, exitStatus, files, replay, sock, socks, src,
                   sent, burst_sent, so, transmitted, returns, linesRead, printed>>

\* one iteration of the retry loop: connect_tcp succeeds or raises
ConnectAttempt(ok) ==
    /\ pc = "connect"
    /\ conn.attempt < tcp_retries
    /\ IF ok
       THEN /\ sock' = Len(socks) + 1
            /\ socks' = Append(socks, "open")
            /\ conn' = [conn EXCEPT !.attempt = @ + 1, !.ret = "True"]
            /\ IF conn.caller = "replay"
               THEN pc' = "file" /\ idx_fp' = 1 /\ so' = so
               ELSE pc' = "resend" /\ idx_fp' = idx_fp /\ so' = [so EXCEPT !.rc = "ok"]
            /\ UNCHANGED <<connectFailed, orphanOpen>>
       ELSE /\ conn' = [conn EXCEPT !.attempt = @ + 1,
                                    !.sleeps = Append(@, conn.backoff),
                                    !.backoff = NextBackoff(conn.backoff)]
            /\ connectFailed' = TRUE
            /\ orphanOpen' = TRUE
            /\ UNCHANGED <<pc, sock, socks, idx_fp, so>>
    /\ UNCHANGED <<argVars, unitVars, auxVars, handed, writeFailures, sentTotal, outcome, exitStatus, files,
                   replay, src, sent, burst_sent, transmitted, returns, linesRead,
                   printed>>

\* the garbage collector frees the sockets connect_tcp left behind, and
\* freeing a socket closes it; when it runs is not up to the program
GarbageCollect ==
    /\ pc # "done"
    /\ orphanOpen
    /\ orphanOpen' = FALSE
    /\ UNCHANGED <<argVars, unitVars, auxVars, handed, runVarsButOrphan>>

ConnectExhaustedResends ==
    /\ pc = "connect"
    /\ conn.attempt >= tcp_retries
    /\ conn' = [conn EXCEPT !.ret = "False"]
    /\ IF conn.caller = "replay"
       THEN /\ Finally("connect_failed", ReturnStatus, <<"Unable to connect">>)
            /\ UNCHANGED <<src, so>>
       ELSE /\ pc' = "resend"
            /\ so' = [so EXCEPT !.rc = "fail"]
            /\ UNCHANGED <<outcome, exitStatus, printed, socks, src>>
    /\ UNCHANGED <<argVars, unitVars, auxVars, handed, writeFailures, connectFailed, orphanOpen, sentTotal, files, replay, idx_fp, sock, sent, burst_sent,
                   transmitted, returns, linesRead>>

\* the loop ran out: print "Unable to connect", return False; the caller is
\* the replay loop (return, through finally) or send_one (return False, and
\* send_file_once raises RuntimeError)
ConnectExhausted ==
    /\ pc = "connect"
    /\ conn.attempt >= tcp_retries
    /\ conn' = [conn EXCEPT !.ret = "False"]
    /\ IF conn.caller = "replay"
       THEN /\ Finally("connect_failed", ReturnStatus, <<"Unable to connect">>)
            /\ UNCHANGED <<src, so>>
       ELSE /\ Raise("fatal_send", <<"Unable to connect", "TCP send failed and reconnect failed">>)
            /\ so' = [so EXCEPT !.rc = "fail", !.ret = "False"]
    /\ UNCHANGED <<argVars, unitVars, auxVars, handed, writeFailures, connectFailed, orphanOpen, sentTotal, files, replay, idx_fp, sock, sent, burst_sent,
                   transmitted, returns, linesRead>>

\* what send_log prints after the replay loop
FinalReport == <<>>

\* the replay loop ended: finally, and the script ends
Finish ==
    /\ pc = "replay"
    /\ replay > count
    /\ Finally("completed", ReturnStatus, <<>>)
    /\ summary' = summary \o FinalReport
    /\ UNCHANGED <<argVars, unitVars, burst_delay, delays, handed, writeFailures, connectFailed, orphanOpen, sentTotal, files, replay, idx_fp, sock, conn, src, sent,
                   burst_sent, so, transmitted, returns, linesRead>>

\* ------------------------------------------------------- send_file_once
SendFileOnce ==
    /\ pc = "file"
    /\ sent' = 0
    /\ burst_sent' = 0
    /\ src' = NoSrc
    /\ conn' = NoCall
    /\ pc' = "read"
    /\ delays' = 0
    /\ UNCHANGED <<argVars, unitVars, burst_delay, summary, handed, writeFailures, connectFailed, orphanOpen, sentTotal, outcome, exitStatus, files, replay, idx_fp,
                   sock, socks, so, transmitted, returns, linesRead, printed>>

\* the inner loop may read: always when paced, while burst_sent < eps in a burst
MayRead == mode = "paced" \/ burst_sent < eps

\* StreamingLineSource.next_line with stop_at_eof = True: readline() is the
\* next line, or "" at the end of the file
AtEofEarly == src.pos + 1 >= nlines[fp]

AtEof == src.pos >= nlines[fp]

NextLine ==
    /\ pc = "read"
    /\ MayRead
    /\ ~AtEof
    /\ src' = [open |-> TRUE, pos |-> src.pos + 1]
    /\ linesRead' = linesRead + 1
    /\ so' = [NoSend EXCEPT !.wire = <<replay, fp, src.pos + 1>>]
    /\ handed' = Append(handed, <<replay, fp, src.pos + 1>>)
    /\ pc' = "write"
    /\ UNCHANGED <<argVars, unitVars, auxVars, writeFailures, connectFailed, orphanOpen, sentTotal, outcome, exitStatus, files, replay, idx_fp, sock,
                   socks, conn, sent, burst_sent, transmitted, returns, printed>>

\* StopIteration: break, src.close(), return sent; send_log goes on with the
\* next file, or with the next replay after the last one
EndOfInput ==
    /\ pc = "read"
    /\ MayRead
    /\ AtEof
    /\ src' = NoSrc
    /\ returns' = Append(returns, [replay |-> replay, fp |-> fp, n |-> sent,
                                  delays |-> delays])
    /\ IF idx_fp < Len(files)
       THEN idx_fp' = idx_fp + 1 /\ pc' = "file" /\ replay' = replay
       ELSE idx_fp' = idx_fp /\ pc' = "replay" /\ replay' = replay + 1
    /\ UNCHANGED <<argVars, unitVars, auxVars, handed, writeFailures, connectFailed, orphanOpen, sentTotal, outcome, exitStatus, files, sock, socks, conn, sent,
                   burst_sent, so, transmitted, linesRead, printed>>

\* a burst of eps lines is complete: sleep burst_delay if it is not zero,
\* start the next burst
BurstEnd ==
    /\ pc = "read"
    /\ ~MayRead
    /\ burst_sent' = 0
    /\ delays' = IF burst_delay # 0 THEN delays + 1 ELSE delays
    /\ UNCHANGED <<argVars, unitVars, burst_delay, summary, handed, writeFailures, connectFailed, orphanOpen, sentTotal, pc, outcome, exitStatus, files, replay, idx_fp, sock,
                   socks, conn, src, sent, so, transmitted, returns, linesRead,
                   printed>>

\* open() or readline() raises (the file vanished, an I/O error): nothing
\* catches it
ReadError ==
    /\ pc = "read"
    /\ MayRead
    /\ Raise("exception", <<>>)
    /\ UNCHANGED <<argVars, unitVars, auxVars, handed, writeFailures, connectFailed, orphanOpen, sentTotal, files, replay, idx_fp, sock, conn, sent, burst_sent,
                   so, transmitted, returns, linesRead>>

\* --------------------------------------------------------------- send_one
\* send_one's argument: the frame built from the line in hand, identified
\* by replay, file and line number
Frame == so.wire

\* send_one returned True: sent += 1 (and burst_sent += 1), next iteration
Counted ==
    /\ sent' = sent + 1
    /\ sentTotal' = sentTotal + 1
    /\ burst_sent' = IF mode = "burst" THEN burst_sent + 1 ELSE burst_sent
    /\ pc' = "read"

UdpFailureReturnFalse == "False"

\* what send_one returns when sendto raised on the datagram socket
UdpFailureReturn == "True"

\* the messages send_one prints when sendto raised on the datagram socket
UdpFailureLog == <<>>

\* sock.sendall(wire) / sock.sendto(wire, (ip, port))
FirstWrite(ok) ==
    /\ pc = "write"
    /\ ok \/ writeFailures < MaxWriteFailures
    /\ writeFailures' = IF ok THEN writeFailures ELSE writeFailures + 1
    /\ IF ok
       THEN /\ transmitted' = Append(transmitted, Frame)
            /\ so' = [so EXCEPT !.writes = @ + 1, !.w1 = "ok", !.ret = "True"]
            /\ Counted
            /\ UNCHANGED <<sock, socks, conn, printed, outcome, exitStatus, src>>
       ELSE IF is_tcp
       THEN /\ socks' = safe_close(sock, socks)
            /\ sock' = None
            /\ so' = [so EXCEPT !.writes = @ + 1, !.w1 = "fail", !.ensures = @ + 1]
            /\ conn' = NewCall("send_one")
            /\ pc' = "connect"
            /\ UNCHANGED <<transmitted, sent, sentTotal, burst_sent, printed, outcome,
                           exitStatus, src>>
       ELSE /\ so' = [so EXCEPT !.writes = @ + 1, !.w1 = "fail", !.ret = UdpFailureReturn]
            /\ IF UdpFailureReturn = "True"
               THEN /\ printed' = printed \o UdpFailureLog
                    /\ Counted
                    /\ UNCHANGED <<socks, outcome, exitStatus, src>>
               ELSE /\ Raise("fatal_send", UdpFailureLog)
                    /\ UNCHANGED <<sent, sentTotal, burst_sent>>
            /\ UNCHANGED <<transmitted, sock, conn>>
    /\ UNCHANGED <<argVars, unitVars, auxVars, handed, connectFailed, orphanOpen, files,
                   replay, idx_fp, returns, linesRead>>

ResendReturnIgnoresFailure(ok) == "True"

\* what send_one returns after the second sendall
ResendReturn(ok) == IF ok THEN "True" ELSE "False"

\* after the reconnect: sock.sendall(wire) once more
Resend(ok) ==
    /\ pc = "resend"
    /\ ok \/ writeFailures < MaxWriteFailures
    /\ writeFailures' = IF ok THEN writeFailures ELSE writeFailures + 1
    /\ conn' = NoCall
    /\ so' = [so EXCEPT !.writes = @ + 1, !.w2 = IF ok THEN "ok" ELSE "fail",
                        !.ret = ResendReturn(ok)]
    /\ transmitted' = IF ok THEN Append(transmitted, Frame) ELSE transmitted
    /\ IF ResendReturn(ok) = "True"
       THEN /\ Counted
            /\ UNCHANGED <<outcome, exitStatus, printed, socks, src>>
       ELSE /\ Raise("fatal_send", <<"TCP resend after reconnect failed">>)
            /\ UNCHANGED <<sent, sentTotal, burst_sent>>
    /\ UNCHANGED <<argVars, unitVars, auxVars, handed, connectFailed, orphanOpen, files, replay, idx_fp, sock,
                   returns, linesRead>>

\* ------------------------------------------------------------------- Next
Next ==
    \/ ParseOptionalArgs
    \/ Validate
    \/ EnterTry
    \/ ReplayStart
    \/ \E ok \in BOOLEAN : ConnectAttempt(ok)
    \/ ConnectExhausted
    \/ GarbageCollect
    \/ Finish
    \/ SendFileOnce
    \/ NextLine
    \/ EndOfInput
    \/ BurstEnd
    \/ ReadError
    \/ \E ok \in BOOLEAN : FirstWrite(ok)
    \/ \E ok \in BOOLEAN : Resend(ok)

Spec == Init /\ [][Next]_vars

\* ================================================================ claims
RECURSIVE SumLines(_)
SumLines(fs) == IF fs = <<>> THEN 0 ELSE nlines[Head(fs)] + SumLines(Tail(fs))

AllClosed == \A i \in DOMAIN socks : socks[i] = "closed"

InSendOne == pc \in {"write", "resend"} \/ (pc = "connect" /\ conn.caller = "send_one")

\* C1: with stop_at_eof and no send or connect failure, every call of
\* send_file_once returns the file's line count, and a completed run of
\* `count` replays has sent count times the files' lines, once each per pass
C1_EveryLineOncePerPass ==
    (stop_at_eof /\ writeFailures = 0 /\ ~connectFailed) =>
        /\ \A i \in DOMAIN returns : returns[i].n = nlines[returns[i].fp]
        /\ outcome = "completed" =>
              /\ Len(returns) = count * Len(files)
              /\ Len(transmitted) = count * SumLines(files)
              /\ sentTotal = count * SumLines(files)
              /\ \A r \in 1..count : \A i \in DOMAIN files : \A k \in 1..nlines[files[i]] :
                    Cardinality({j \in DOMAIN transmitted :
                                    transmitted[j] = <<r, files[i], k>>}) = 1

C1_Witness ==
    /\ outcome = "completed"
    /\ writeFailures = 0 /\ ~connectFailed
    /\ count = 2
    /\ mode = "burst"
    /\ Len(transmitted) = 2 * MaxLines
    /\ Len(returns) = 2

\* C2: on TCP a line that was read is written (first write or resend)
\* before the next line is read, or the run has aborted; nothing is read or
\* sent after a fatal send error; sent counts only the lines written
C2_NoSilentDropState ==
    is_tcp =>
        /\ linesRead - Len(transmitted) \in {0, 1}
        /\ linesRead > Len(transmitted) => (InSendOne \/ outcome = "fatal_send")
        /\ sentTotal = Len(transmitted)
        /\ outcome = "fatal_send" => pc = "done"

C2_NoSilentDropStep ==
    is_tcp =>
        /\ linesRead' > linesRead => linesRead = Len(transmitted)
        /\ outcome = "fatal_send" =>
              (linesRead' = linesRead /\ transmitted' = transmitted /\ sentTotal' = sentTotal)

C2_NoSilentDrop == [](C2_NoSilentDropState) /\ [][C2_NoSilentDropStep]_vars

C2_Witness ==
    /\ is_tcp
    /\ pc = "write"
    /\ linesRead = 2
    /\ Len(transmitted) = 1
    /\ writeFailures = 1

\* C3: a TCP send_one whose first write fails closes and drops the broken
\* socket, calls ensure_tcp_connected once, writes the same frame once more
\* if that succeeds, and fails exactly when the reconnect or the second write
\* fails: a frame is written at most twice
C3_ResendOnce ==
    is_tcp =>
        /\ so.writes <= 2
        /\ so.ensures <= 1
        /\ so.w1 = "fail" => so.ensures = 1
        /\ so.w1 # "fail" => (so.ensures = 0 /\ so.rc = "none" /\ so.w2 = "none")
        /\ (pc = "connect" /\ conn.caller = "send_one") =>
              (so.w1 = "fail" /\ so.writes = 1 /\ sock = None /\ AllClosed)
        /\ pc = "resend" => (so.w1 = "fail" /\ so.rc = "ok" /\ so.writes = 1)
        /\ so.w2 # "none" => (so.rc = "ok" /\ so.writes = 2)
        /\ so.ret = "False" <=> (so.rc = "fail" \/ so.w2 = "fail")
        /\ so.ret = "True" <=> (so.w1 = "ok" \/ so.w2 = "ok")
        /\ so.ret = "True" => transmitted # <<>> /\ transmitted[Len(transmitted)] = Frame
        /\ \A i, j \in DOMAIN transmitted : i # j => transmitted[i] # transmitted[j]

C3_Witness ==
    /\ is_tcp
    /\ so.w1 = "fail" /\ so.rc = "ok" /\ so.w2 = "ok" /\ so.ret = "True"
    /\ so.writes = 2

\* C4: the sleep after the k-th failed connect attempt is
\* min(max, initial * 2^(k-1)) for every initial and max, and nothing is
\* slept after a successful attempt (three failures, then success: three
\* sleeps)
C4_BackoffCapped ==
    /\ \A k \in DOMAIN conn.sleeps :
          conn.sleeps[k] = Min(tcp_backoff_max, tcp_backoff_start * 2^(k - 1))
    /\ conn.ret = "True" /\ conn.attempt > 0 => Len(conn.sleeps) = conn.attempt - 1
    /\ conn.ret # "True" => Len(conn.sleeps) = conn.attempt

\* C5: ensure_tcp_connected changes nothing and returns True when a socket is
\* held; otherwise it tries at most tcp_retries times, stops at the first
\* success, and returns False only after tcp_retries failures, holding no
\* socket
C5_EnsureState ==
    /\ conn.attempt <= tcp_retries
    /\ pc = "connect" => (sock = None /\ conn.ret = "none"
                          /\ Len(conn.sleeps) = conn.attempt)
    /\ (conn.ret = "True" /\ conn.attempt > 0) =>
          /\ sock = Len(socks) /\ socks[sock] = "open"
          /\ Len(conn.sleeps) = conn.attempt - 1
    /\ conn.ret = "False" =>
          /\ conn.attempt = tcp_retries
          /\ Len(conn.sleeps) = tcp_retries
          /\ sock = None

C5_EnsureNoOp ==
    (pc = "replay" /\ replay <= count /\ is_tcp /\ sock # None) =>
        /\ sock' = sock
        /\ socks' = socks
        /\ connectFailed' = connectFailed
        /\ pc' \in {"file", "replay"}
        /\ pc' = "file" => (conn'.ret = "True" /\ conn'.attempt = 0)

C5_EnsureConnected == [](C5_EnsureState) /\ [][C5_EnsureNoOp]_vars

C5_Witness ==
    /\ is_tcp
    /\ replay = 2
    /\ pc = "file"
    /\ conn.ret = "True" /\ conn.attempt = 0
    /\ sock # None /\ socks[sock] = "open"

ValidArgs == argvValid /\ ConfigError(expand_inputs(listing)) = ""

FrameLess(a, b) ==
    \/ a[1] < b[1]
    \/ a[1] = b[1] /\ a[2] < b[2]
    \/ a[1] = b[1] /\ a[2] = b[2] /\ a[3] < b[3]

FileFrames(r, p) == [k \in 1..nlines[p] |-> <<r, p, k>>]

RECURSIVE PassFrames(_, _)
PassFrames(r, fs) ==
    IF fs = <<>> THEN <<>> ELSE FileFrames(r, Head(fs)) \o PassFrames(r, Tail(fs))

RECURSIVE RunFrames(_)
RunFrames(r) == IF r > count THEN <<>> ELSE PassFrames(r, files) \o RunFrames(r + 1)

IsPrefix(s, u) == Len(s) <= Len(u) /\ \A i \in DOMAIN s : s[i] = u[i]

\* C7: at every point of the run, also one cut short, the frames handed to
\* the transport are a prefix of: pass 1..count, in each pass the files in
\* sorted order, of each file every line in file order
C7_StrictOrder ==
    /\ \A i, j \in DOMAIN files : i < j => files[i] < files[j]
    /\ pc \notin {"main", "send_log"} => IsPrefix(handed, RunFrames(1))
    /\ \A i, j \in DOMAIN handed : i < j => FrameLess(handed[i], handed[j])
    /\ \A i, j \in DOMAIN transmitted : i < j => FrameLess(transmitted[i], transmitted[j])
    /\ \A i \in DOMAIN transmitted : \E j \in DOMAIN handed : handed[j] = transmitted[i]
    /\ is_tcp => IsPrefix(transmitted, handed)

C7_Witness ==
    /\ listing = <<2, 1>>
    /\ files = <<1, 2>>
    /\ count = 2
    /\ outcome = "completed"
    /\ handed = <<<<1, 1, 1>>, <<1, 2, 1>>, <<2, 1, 1>>, <<2, 2, 1>>>>

\* C8: when send_log has ended, on whatever path, no socket the run opened
\* is still open
C8_NoSocketLeftOpen == pc = "done" => (AllClosed /\ ~orphanOpen)

\* C9 without its last clause: on UDP no connect is attempted, send_one never
\* returns False, the run is never aborted by a send, and a run that
\* completes has attempted every line of every file in every pass
C9_UdpNeverAborts ==
    is_udp =>
        /\ pc # "connect" /\ pc # "resend" /\ ~connectFailed /\ Len(socks) <= 1
        /\ so.ret # "False"
        /\ outcome \notin {"fatal_send", "connect_failed"}
        /\ outcome = "completed" => handed = RunFrames(1)

\* C9: a failed UDP send never aborts the run, and the failure is logged as
\* a non-fatal error
C9_UdpFailureLogged ==
    /\ C9_UdpNeverAborts
    /\ (is_udp /\ outcome \in {"running", "completed", "exception"}) =>
          Len(printed) >= writeFailures

\* C10: every configuration error and every fatal send error ends the
\* process with a non-zero status, and status zero means a completed run
C10_ExitStatus ==
    pc = "done" =>
        /\ outcome \in {"usage_error", "config_error", "connect_failed", "fatal_send"}
              => exitStatus # 0
        /\ exitStatus = 0 => outcome = "completed"

\* ============================================================ build_wire
\* fixed arguments for the checks of one component
FixedArgs ==
    /\ argvValid = TRUE
    /\ count = 1
    /\ eps = 1
    /\ protocol = 1
    /\ fmt = "rfc3164"
    /\ mode = "paced"
    /\ stop_at_eof = TRUE
    /\ tcp_retries = DefaultTcpRetries
    /\ tcp_backoff_start = DefaultBackoffStart
    /\ tcp_backoff_max = DefaultBackoffMax
    /\ listing = <<1>>
    /\ nlines = [p \in Names |-> IF p = 1 THEN 1 ELSE NotAFile]
    /\ burst_delay = 0

CR == "\r"
LF == "\n"
\* a character str.encode("utf-8") cannot encode (a lone surrogate)
Surrogate == "\\ud800"

Chars == {"a", CR, LF, Surrogate}

Strings(n) == UNION {[1..k -> Chars] : k \in 0..n}

Last(s) == s[Len(s)]
Front(s) == SubSeq(s, 1, Len(s) - 1)

rstrip_nothing(s) == s

\* str.rstrip("\r\n"): drops every trailing CR and LF
RECURSIVE rstrip(_)
rstrip(s) ==
    IF s # <<>> /\ Last(s) \in {CR, LF} THEN rstrip(Front(s)) ELSE s

calc_pri(facility, severity) == facility * 8 + severity

\* rfc3164_timestamp(): "Mon DD HH:MM:SS", one token here
Timestamp == "Nov  2 17:49:00"

\* format_rfc3164: "<PRI>TS HOST TAG: MSG", or "<PRI>TS HOST TAG MSG" in zeek
\* style; a sequence of tokens followed by the characters of the message
format_rfc3164(message, hostname, tag, facility, severity, zeek_style) ==
    <<"<", ToString(calc_pri(facility, severity)), ">", Timestamp, " ", hostname, " ", tag>>
        \o (IF zeek_style THEN <<" ">> ELSE <<":", " ">>)
        \o rstrip(message)

format_raw(message) == rstrip(message)

\* str.encode("utf-8", errors="replace"): what cannot be encoded becomes "?"
encode(s) == [i \in DOMAIN s |-> IF s[i] = Surrogate THEN "?" ELSE s[i]]

\* send_log's defaults for facility and severity
DefaultFacility == 1
DefaultSeverity == 6

build_wire(line, tag, zeek_style, f, tcp, tcp_append_newline) ==
    LET out == IF f = "rfc3164"
               THEN format_rfc3164(line, "host", tag, DefaultFacility, DefaultSeverity, zeek_style)
               ELSE format_raw(line)
    IN encode(IF tcp /\ tcp_append_newline THEN Append(out, LF) ELSE out)

InitWire ==
    /\ FixedArgs
    /\ Loaded
    /\ tagCall = NoUnit /\ lineSource = NoUnit /\ splitter = NoUnit /\ pacer = NoUnit
    /\ \E l \in Strings(MaxLineLen), f \in {"rfc3164", "raw"}, tcp \in BOOLEAN,
          nl \in BOOLEAN, z \in BOOLEAN :
          wireCall = [op |-> "build_wire", line |-> l, fmt |-> f, is_tcp |-> tcp,
                      tcp_append_newline |-> nl, zeek_style |-> z, out |-> <<>>,
                      done |-> FALSE]

BuildWire ==
    /\ wireCall.op = "build_wire"
    /\ ~wireCall.done
    /\ wireCall' = [wireCall EXCEPT
          !.out = build_wire(wireCall.line, "tag", wireCall.zeek_style, wireCall.fmt,
                             wireCall.is_tcp, wireCall.tcp_append_newline),
          !.done = TRUE]
    /\ UNCHANGED <<argVars, runVars, auxVars, tagCall, lineSource, splitter, pacer>>

NextWire == BuildWire

SpecWire == InitWire /\ [][NextWire]_vars

CountOf(c, s) == Cardinality({i \in DOMAIN s : s[i] = c})

\* a line as readline() returns it in text mode: no CR, and LF only as its
\* last character
ReadlineShaped(l) ==
    \A i \in DOMAIN l : l[i] # CR /\ (l[i] = LF => i = Len(l))

\* C11: on TCP with the delimiter enabled the frame ends with exactly one LF
\* (the line's trailing CR and LF are stripped first), in both formats;
\* with the delimiter suppressed, or on UDP, none is appended; so a frame
\* built from a line of a file holds one LF on TCP and none otherwise
C11_OneDelimiter ==
    wireCall.done =>
        LET out == wireCall.out
            framed == wireCall.is_tcp /\ wireCall.tcp_append_newline
        IN /\ framed =>
                /\ out # <<>> /\ Last(out) = LF
                /\ Len(out) >= 2 => out[Len(out) - 1] \notin {CR, LF}
           /\ ~framed => (out = <<>> \/ Last(out) \notin {CR, LF})
           /\ ReadlineShaped(wireCall.line) =>
                CountOf(LF, out) = (IF framed THEN 1 ELSE 0)
           /\ wireCall.fmt = "raw" =>
                Len(out) = Len(rstrip(wireCall.line)) + (IF framed THEN 1 ELSE 0)

C11_Witness ==
    /\ wireCall.done
    /\ wireCall.line = <<"a", CR, LF>>
    /\ wireCall.fmt = "rfc3164"
    /\ wireCall.is_tcp /\ wireCall.tcp_append_newline
    /\ Last(wireCall.out) = LF

\* ---------------------------------------------------------------------
\* Service mapping: pick_tag_for_file and is_zeek_file
\* ---------------------------------------------------------------------

\* the built-in filename table, cut down to two of its keys
DEFAULT_ZEEK_TAGS == [b \in {"conn.log", "dns.log"} |->
                        IF b = "conn.log" THEN "zeek_conn" ELSE "zeek_dns"]

Components == {"conn.log", "dns.log", "app.log"}

\* a path is the sequence of its components
Paths == UNION {[1..k -> Components] : k \in 1..2}

basename(path) == Last(path)

\* parse_service_map_arg keeps the pairs whose key and value are non-empty
CliMaps == UNION {[K -> {"custom"}] : K \in SUBSET Components}

\* None and "" are both false in `if service:`
Services == {"", "svc"}

is_zeek_file(path) == basename(path) \in DOMAIN DEFAULT_ZEEK_TAGS

pick_tag_builtin_first(path, cli_map, service, default_tag) ==
    LET base == basename(path)
    IN IF base \in DOMAIN DEFAULT_ZEEK_TAGS THEN DEFAULT_ZEEK_TAGS[base]
       ELSE IF base \in DOMAIN cli_map THEN cli_map[base]
       ELSE IF service # "" THEN service
       ELSE default_tag

pick_tag_for_file(path, cli_map, service, default_tag) ==
    LET base == basename(path)
    IN IF base \in DOMAIN cli_map THEN cli_map[base]
       ELSE IF base \in DOMAIN DEFAULT_ZEEK_TAGS THEN DEFAULT_ZEEK_TAGS[base]
       ELSE IF service # "" THEN service
       ELSE default_tag

InitTag ==
    /\ FixedArgs
    /\ Loaded
    /\ wireCall = NoUnit /\ lineSource = NoUnit /\ splitter = NoUnit /\ pacer = NoUnit
    /\ \E path \in Paths, m \in CliMaps, s \in Services :
          tagCall = [op |-> "pick_tag", fp |-> path, cli_map |-> m, service |-> s,
                     default_tag |-> "trafficGenerator", tag |-> "",
                     zeek_style |-> FALSE, header |-> <<>>, done |-> FALSE]

\* the head of send_file_once: the tag and the style of the file, and the
\* frame of a line "m" built with them
PickTag ==
    /\ tagCall.op = "pick_tag"
    /\ ~tagCall.done
    /\ LET t == pick_tag_for_file(tagCall.fp, tagCall.cli_map, tagCall.service,
                                  tagCall.default_tag)
           z == is_zeek_file(tagCall.fp)
       IN tagCall' = [tagCall EXCEPT
             !.tag = t,
             !.zeek_style = z,
             !.header = format_rfc3164(<<"m">>, "host", t, DefaultFacility,
                                       DefaultSeverity, z),
             !.done = TRUE]
    /\ UNCHANGED <<argVars, runVars, auxVars, wireCall, lineSource, splitter, pacer>>

NextTag == PickTag

SpecTag == InitTag /\ [][NextTag]_vars

\* C12: the tag is the CLI override of the base name if there is one, else
\* the built-in entry of the base name, else the fallback tag if set, else
\* the default tag; the style is no-colon exactly when the base name is a
\* key of the built-in table, whichever source gave the tag, and the frame
\* carries a colon after the tag exactly when the style is not no-colon
C12_TagPrecedence ==
    tagCall.done =>
        LET base == tagCall.fp[Len(tagCall.fp)]
            overridden == base \in DOMAIN tagCall.cli_map
            builtin == base \in {"conn.log", "dns.log"}
            h == tagCall.header
        IN /\ overridden => tagCall.tag = tagCall.cli_map[base]
           /\ ~overridden /\ base = "conn.log" => tagCall.tag = "zeek_conn"
           /\ ~overridden /\ base = "dns.log" => tagCall.tag = "zeek_dns"
           /\ ~overridden /\ ~builtin /\ tagCall.service # ""
                => tagCall.tag = tagCall.service
           /\ ~overridden /\ ~builtin /\ tagCall.service = ""
                => tagCall.tag = tagCall.default_tag
           /\ tagCall.zeek_style <=> builtin
           /\ h[8] = tagCall.tag
           /\ (h[9] = ":") <=> ~builtin

C12_Witness ==
    /\ tagCall.done
    /\ tagCall.fp = <<"app.log", "conn.log">>
    /\ "conn.log" \in DOMAIN tagCall.cli_map
    /\ tagCall.tag = "custom"
    /\ tagCall.zeek_style
    /\ tagCall.header[9] = " "

\* ---------------------------------------------------------------------
\* StreamingLineSource
\* ---------------------------------------------------------------------

\* a file of n lines is the sequence 1..n of its line numbers; an open
\* handle is the number of lines it has consumed
readline_at(n, pos) == IF pos < n THEN pos + 1 ELSE 0

next_line_no_rewind(s) ==
    LET pos == IF s.fh_open THEN s.fh_pos ELSE 0
        line == readline_at(s.n, pos)
    IN IF line # 0
       THEN [s EXCEPT !.fh_open = TRUE, !.fh_pos = pos + 1, !.calls = @ + 1,
                      !.line = line, !.raised = ""]
       ELSE IF s.stop_at_eof
       THEN [s EXCEPT !.fh_open = TRUE, !.fh_pos = pos, !.calls = @ + 1,
                      !.line = 0, !.raised = "StopIteration"]
       ELSE IF s.n = 0
       THEN [s EXCEPT !.fh_open = TRUE, !.fh_pos = 0, !.calls = @ + 1,
                      !.line = 0, !.raised = "ValueError"]
       ELSE [s EXCEPT !.fh_open = TRUE, !.fh_pos = pos, !.calls = @ + 1,
                      !.line = s.n, !.raised = ""]

next_line(s) ==
    LET pos == IF s.fh_open THEN s.fh_pos ELSE 0
        line == readline_at(s.n, pos)
        again == readline_at(s.n, 0)
    IN IF line # 0
       THEN [s EXCEPT !.fh_open = TRUE, !.fh_pos = pos + 1, !.calls = @ + 1,
                      !.line = line, !.raised = ""]
       ELSE IF s.stop_at_eof
       THEN [s EXCEPT !.fh_open = TRUE, !.fh_pos = pos, !.calls = @ + 1,
                      !.line = 0, !.raised = "StopIteration"]
       ELSE IF again = 0
       THEN [s EXCEPT !.fh_open = TRUE, !.fh_pos = 0, !.calls = @ + 1,
                      !.line = 0, !.raised = "ValueError"]
       ELSE [s EXCEPT !.fh_open = TRUE, !.fh_pos = 1, !.calls = @ + 1,
                      !.line = again, !.raised = ""]

InitSource ==
    /\ FixedArgs
    /\ Loaded
    /\ wireCall = NoUnit /\ tagCall = NoUnit /\ splitter = NoUnit /\ pacer = NoUnit
    /\ \E n \in 0..MaxSrcLines, stop \in BOOLEAN :
          lineSource = [op |-> "source", n |-> n, stop_at_eof |-> stop,
                        fh_open |-> FALSE, fh_pos |-> 0, calls |-> 0,
                        line |-> 0, raised |-> "", closed |-> FALSE]

SourceNextLine ==
    /\ lineSource.op = "source"
    /\ ~lineSource.closed
    /\ lineSource.calls < MaxCalls
    /\ lineSource' = next_line(lineSource)
    /\ UNCHANGED <<argVars, runVars, auxVars, wireCall, tagCall, splitter, pacer>>

\* the user of a source closes it last (send_file_once: finally)
SourceClose ==
    /\ lineSource.op = "source"
    /\ ~lineSource.closed
    /\ lineSource' = [lineSource EXCEPT !.fh_open = FALSE, !.fh_pos = 0,
                                        !.closed = TRUE]
    /\ UNCHANGED <<argVars, runVars, auxVars, wireCall, tagCall, splitter, pacer>>

NextSource == SourceNextLine \/ SourceClose

SpecSource == InitSource /\ [][NextSource]_vars

\* C13: in cycle mode over a file of n >= 1 lines the k-th call of
\* next_line returns line ((k-1) mod n)+1 and raises nothing (over one
\* line: that line, every time); the empty-file error is raised exactly
\* when the file read again from its start has no line
C13_CycleReturns ==
    (lineSource.op = "source" /\ ~lineSource.stop_at_eof /\ lineSource.calls >= 1) =>
        /\ lineSource.n >= 1 =>
              /\ lineSource.raised = ""
              /\ lineSource.line = ((lineSource.calls - 1) % lineSource.n) + 1
        /\ lineSource.n = 1 => lineSource.line = 1
        /\ lineSource.raised = "ValueError" <=> lineSource.n = 0
        /\ lineSource.raised # "StopIteration"

C13_Witness ==
    /\ lineSource.op = "source"
    /\ ~lineSource.stop_at_eof
    /\ lineSource.n = 2
    /\ lineSource.calls = 5
    /\ lineSource.line = 1
    /\ ~lineSource.closed

\* ---------------------------------------------------------------------
\* Reports and burst delays of the run
\* ---------------------------------------------------------------------

RECURSIVE SumReturned(_)
SumReturned(rs) == IF rs = <<>> THEN 0 ELSE Last(rs).n + SumReturned(Front(rs))

\* C14: when a run completes, an aggregate report has been printed whose
\* sent count is the sum of the per-file sent counts of all files in all
\* replay passes
C14_AggregateReport ==
    outcome = "completed" =>
        \E i \in DOMAIN summary : summary[i].sent = SumReturned(returns)

\* the bursts that carried n lines at eps lines a burst
BurstsOf(n) == (n + eps - 1) \div eps

\* C16: in burst mode with a burst delay, a file pass that sent n >= 1
\* lines slept the burst delay once less than it sent bursts, also when n
\* is a multiple of eps; a pass over an empty file did not sleep
C16_NoTrailingDelay ==
    (mode = "burst" /\ burst_delay # 0) =>
        \A i \in DOMAIN returns :
            returns[i].delays = (IF returns[i].n = 0 THEN 0
                                 ELSE BurstsOf(returns[i].n) - 1)

\* ---------------------------------------------------------------------
\* split_log
\* ---------------------------------------------------------------------

\* the input file of L lines is the sequence 1..L of its line numbers;
\* chunks[i] is what was written to the output file of index i
InitSplit ==
    /\ FixedArgs
    /\ Loaded
    /\ wireCall = NoUnit /\ tagCall = NoUnit /\ lineSource = NoUnit /\ pacer = NoUnit
    /\ \E n \in (0 - 1)..MaxPerFile, l \in 0..MaxSplitLines :
          splitter = [op |-> "split_log", lines_per_file |-> n, L |-> l,
                      pc |-> "start", read |-> 0, part_idx |-> 0,
                      line_idx_in_part |-> 0, out_fh |-> None, chunks |-> <<>>,
                      total_lines |-> 0, opens |-> 0, raised |-> "",
                      report |-> <<>>]

\* if lines_per_file <= 0: raise ValueError; else open the input
SplitStart ==
    /\ splitter.op = "split_log"
    /\ splitter.pc = "start"
    /\ splitter' = IF splitter.lines_per_file <= 0
                   THEN [splitter EXCEPT !.pc = "done", !.raised = "ValueError"]
                   ELSE [splitter EXCEPT !.pc = "loop", !.opens = @ + 1]
    /\ UNCHANGED <<argVars, runVars, auxVars, wireCall, tagCall, lineSource, pacer>>

NeedsNextFileLate(s) == s.out_fh = None \/ s.line_idx_in_part > s.lines_per_file

NeedsNextFile(s) == s.out_fh = None \/ s.line_idx_in_part >= s.lines_per_file

\* closes the open output, opens the output of the next index
open_next_file(s) ==
    [s EXCEPT !.part_idx = @ + 1, !.line_idx_in_part = 0,
              !.out_fh = s.part_idx + 1, !.chunks = Append(@, <<>>),
              !.opens = @ + 1]

\* one round of `for line in in_fh`
SplitLine ==
    /\ splitter.op = "split_log"
    /\ splitter.pc = "loop"
    /\ splitter.read < splitter.L
    /\ LET line == splitter.read + 1
           s == IF NeedsNextFile(splitter) THEN open_next_file(splitter) ELSE splitter
       IN splitter' = [s EXCEPT !.read = line,
                                !.chunks[s.out_fh] = Append(@, line),
                                !.line_idx_in_part = @ + 1,
                                !.total_lines = @ + 1]
    /\ UNCHANGED <<argVars, runVars, auxVars, wireCall, tagCall, lineSource, pacer>>

\* the input is exhausted: close the output, print the report
SplitEnd ==
    /\ splitter.op = "split_log"
    /\ splitter.pc = "loop"
    /\ splitter.read = splitter.L
    /\ splitter' = [splitter EXCEPT
          !.pc = "done",
          !.out_fh = None,
          !.report = IF splitter.total_lines = 0
                     THEN <<"No lines found", "No output files created">>
                     ELSE <<"Split complete", splitter.total_lines, splitter.part_idx>>]
    /\ UNCHANGED <<argVars, runVars, auxVars, wireCall, tagCall, lineSource, pacer>>

NextSplit == SplitStart \/ SplitLine \/ SplitEnd

SpecSplit == InitSplit /\ [][NextSplit]_vars

RECURSIVE Concat(_)
Concat(ss) == IF ss = <<>> THEN <<>> ELSE Concat(Front(ss)) \o Last(ss)

CeilDiv(a, b) == (a + b - 1) \div b

\* C15: with N >= 1 over L lines the chunks are indexed 1..ceil(L/N), each
\* but the last holds N lines and the last 1..N, none is ever empty, their
\* concatenation is the input, and the report gives L lines and ceil(L/N)
\* files (with L = 0: no chunk, and the report says so); N <= 0 raises
\* before any file is opened
C15_Chunks ==
    splitter.op = "split_log" =>
        LET N == splitter.lines_per_file
            L == splitter.L
            c == splitter.chunks
        IN /\ \A i \in DOMAIN c : Len(c[i]) \in 1..N
           /\ \A i \in DOMAIN c : i < Len(c) => Len(c[i]) = N
           /\ Concat(c) = [i \in 1..splitter.read |-> i]
           /\ splitter.part_idx = Len(c)
           /\ (splitter.pc = "done" /\ N >= 1) =>
                 /\ splitter.raised = ""
                 /\ Len(c) = CeilDiv(L, N)
                 /\ Concat(c) = [i \in 1..L |-> i]
                 /\ L >= 1 => splitter.report = <<"Split complete", L, CeilDiv(L, N)>>
                 /\ L = 0 => c = <<>> /\ splitter.report[1] = "No lines found"
           /\ N <= 0 =>
                 /\ splitter.opens = 0 /\ c = <<>>
                 /\ splitter.pc = "done" => splitter.raised = "ValueError"

C15_Witness ==
    /\ splitter.op = "split_log"
    /\ splitter.pc = "done"
    /\ splitter.lines_per_file = 2
    /\ splitter.L = 5
    /\ splitter.chunks = <<<<1, 2>>, <<3, 4>>, <<5>>>>

\* ---------------------------------------------------------------------
\* The paced loop of send_file_once and its clock
\* ---------------------------------------------------------------------

\* time.perf_counter() in quarter seconds, the unit of the backoff
TicksPerSecond == 4

\* the rates whose interval 1.0 / eps is a whole number of ticks
Rates == {r \in 1..TicksPerSecond : TicksPerSecond % r = 0}

advance_from_now(next_send, now, interval) == now + interval

\* next_send += interval
advance(next_send, now, interval) == next_send + interval

\* interval = 1.0 / float(eps); next_send = time.perf_counter()
InitPaced ==
    /\ FixedArgs
    /\ Loaded
    /\ wireCall = NoUnit /\ tagCall = NoUnit /\ lineSource = NoUnit /\ splitter = NoUnit
    /\ \E r \in Rates, l \in 0..MaxPacedLines, t \in 0..1 :
          pacer = [op |-> "paced", eps |-> r, L |-> l,
                   interval |-> TicksPerSecond \div r,
                   t0 |-> t, clock |-> t, next_send |-> t, sent |-> 0,
                   pc |-> "check", slept |-> FALSE, sendTimes |-> <<>>,
                   raised |-> ""]

\* now = perf_counter(); if now < next_send: sleep(next_send - now).
\* sleep() suspends for at least the time asked
PacedCheck ==
    /\ pacer.op = "paced"
    /\ pacer.pc = "check"
    /\ IF pacer.clock < pacer.next_send
       THEN \E over \in 0..MaxOvershoot :
               pacer' = [pacer EXCEPT !.clock = pacer.next_send + over,
                                      !.slept = TRUE, !.pc = "read"]
       ELSE pacer' = [pacer EXCEPT !.slept = FALSE, !.pc = "read"]
    /\ UNCHANGED <<argVars, runVars, auxVars, wireCall, tagCall, lineSource, splitter>>

\* line = src.next_line(), or StopIteration: break
PacedRead ==
    /\ pacer.op = "paced"
    /\ pacer.pc = "read"
    /\ pacer' = [pacer EXCEPT !.pc = IF pacer.sent < pacer.L THEN "send" ELSE "done"]
    /\ UNCHANGED <<argVars, runVars, auxVars, wireCall, tagCall, lineSource, splitter>>

\* send_one(wire) takes some time; then sent += 1; next_send += interval,
\* or RuntimeError when it returned False
PacedSend(ok) ==
    /\ pacer.op = "paced"
    /\ pacer.pc = "send"
    /\ \E took \in 0..MaxLatency :
          pacer' = IF ok
                   THEN [pacer EXCEPT
                           !.sendTimes = Append(@, pacer.clock),
                           !.clock = @ + took,
                           !.sent = @ + 1,
                           !.next_send = advance(@, pacer.clock + took, pacer.interval),
                           !.pc = "check"]
                   ELSE [pacer EXCEPT
                           !.sendTimes = Append(@, pacer.clock),
                           !.clock = @ + took,
                           !.raised = "RuntimeError",
                           !.pc = "done"]
    /\ UNCHANGED <<argVars, runVars, auxVars, wireCall, tagCall, lineSource, splitter>>

NextPaced == PacedCheck \/ PacedRead \/ (\E ok \in BOOLEAN : PacedSend(ok))

SpecPaced == InitPaced /\ [][NextPaced]_vars

C17_Schedule ==
    pacer.op = "paced" =>
        /\ pacer.next_send = pacer.t0 + pacer.sent * pacer.interval
        /\ pacer.pc \in {"read", "send"} => pacer.clock >= pacer.next_send
        /\ \A k \in DOMAIN pacer.sendTimes :
              pacer.sendTimes[k] >= pacer.t0 + (k - 1) * pacer.interval

C17_CatchUp ==
    (pacer.op = "paced" /\ pacer.pc = "check" /\ pacer.clock >= pacer.next_send)
        => (pacer'.clock = pacer.clock /\ ~pacer'.slept)

\* C17: the due time starts at the pass start t0 and is t0 + k/R after k
\* successful sends however long they took; no line is read or sent while
\* the clock is before the due time, so line k is never sent before
\* t0 + (k-1)/R; and a check that finds the clock at or past the due time
\* does not sleep
C17_PacedTiming == [](C17_Schedule) /\ [][C17_CatchUp]_vars

C17_Witness ==
    /\ pacer.op = "paced"
    /\ pacer.t0 = 0
    /\ pacer.interval = 1
    /\ pacer.sendTimes = <<0, 3, 3>>
    /\ pacer.sent = 3
    /\ pacer.next_send = 3
    /\ ~pacer.slept

\* ---------------------------------------------------------------------
\* The connection of a TCP run
\* ---------------------------------------------------------------------

OpenSockets == {i \in DOMAIN socks : socks[i] = "open"}

\* C18: in a TCP run at most one socket is open at any time, the socket
\* held is an open one as long as the run lasts (so no close hits a socket
\* twice), and when the run has ended every socket it opened has been
\* closed
C18_OneLiveSocket ==
    is_tcp =>
        /\ Cardinality(OpenSockets) <= 1
        /\ (pc # "done" /\ sock # None) => OpenSockets = {sock}
        /\ (pc # "done" /\ sock = None) => OpenSockets = {}
        /\ pc = "done" => (OpenSockets = {} /\ ~orphanOpen)

\* C19: on TCP, whenever send_one is about to call sendall, for the first
\* write or for the resend, a socket is held and it is open
C19_WriteNeedsConnection ==
    (is_tcp /\ pc \in {"write", "resend"}) =>
        (sock # None /\ sock \in DOMAIN socks /\ socks[sock] = "open")

C19_Witness ==
    /\ is_tcp
    /\ pc = "resend"
    /\ so.w1 = "fail" /\ so.rc = "ok"
    /\ sock = 2 /\ socks = <<"closed", "open">>

\* C20: on UDP every line read is counted as sent, a line whose sendto
\* failed included: the count send_file_once returns is the file's line
\* count, while the datagrams that left are fewer by the failed ones; and
\* nothing records the failure: nothing is printed and the run goes on
C20_UdpCountsLinesRead ==
    is_udp =>
        /\ \A i \in DOMAIN returns : returns[i].n = nlines[returns[i].fp]
        /\ pc # "write" =>
              /\ sentTotal = linesRead
              /\ Len(transmitted) = sentTotal - writeFailures
        /\ pc = "read" => sent = src.pos
        /\ outcome \in {"running", "completed"} => printed = <<>>

C20_Witness ==
    /\ is_udp
    /\ outcome = "completed"
    /\ writeFailures >= 1
    /\ returns # <<>>
    /\ returns[1].n = nlines[returns[1].fp]
    /\ returns[1].n >= 1
    /\ transmitted = <<>>

====
